---- MODULE Spec2Model ----
(***************************************************************************)
(* A model of proj2/PokerBot.py: the 5-card hand evaluator                 *)
(* (evaluate_hand, get_high_cards), the random rollout, and the            *)
(* time-bounded MCTS loop (selection, expansion, rollout,                  *)
(* backpropagation) with its fold / stay decision.                         *)
(*                                                                         *)
(* A card is the pair <<rank, suit>> of the source, rank in 2..14 and      *)
(* suit one of "H", "D", "C", "S".  A Python list is a sequence.           *)
(***************************************************************************)
EXTENDS Integers, Sequences, FiniteSets, TLC

VARIABLES
    \* ---- evaluate_hand called on its own ----
    hole,               \* the hole_cards argument
    community,          \* the community_cards argument
    evaluated,          \* <<>> before the call, <<[best_hand, rank]>> after it
    \* ---- one call of mcts ----
    pc,                 \* the position of mcts in its code
    clock,              \* time.time(), in whole seconds
    start_time,         \* mcts: start_time
    nodes,              \* the Node objects, in creation order; nodes[1] is root
    selected_node,      \* mcts: selected_node (an index into nodes, 0 = unset)
    result,             \* mcts: result of the last rollout (twice its value)
    wins,               \* mcts: wins
    ties,               \* mcts: ties
    losses,             \* mcts: losses
    total_simulations,  \* mcts: total_simulations
    win_probability,    \* mcts: <<numerator, denominator>> of win_probability
    decision,           \* mcts: decision, "" until it is made
    started,            \* history: rollouts started in this call
    backpropagated,     \* history: backpropagations completed in this call
    \* ---- rollout, draw_cards and main called on their own ----
    rolled,             \* <<>> before a call of rollout, <<what it computed>> after
    drawn,              \* a call of draw_cards: its arguments and what it returned
    game                \* main: its position, its locals and its calls of mcts

evalVars == <<hole, community, evaluated>>
mctsVars == <<pc, clock, start_time, nodes, selected_node, result, wins, ties,
              losses, total_simulations, win_probability, decision, started,
              backpropagated>>
callVars == <<rolled, drawn, game>>
vars == <<evalVars, mctsVars, callVars>>

----------------------------------------------------------------------------
(* Cards *)

Suits == {"H", "D", "C", "S"}

Ranks == 2..14

\* DECK: the 52 cards in the order of the source list, (2,'H'), (2,'D'),
\* (2,'C'), (2,'S'), (3,'H'), ...
DECK ==
    [ i \in 1..52 |->
        <<2 + ((i - 1) \div 4),
          CASE (i - 1) % 4 = 0 -> "H" [] (i - 1) % 4 = 1 -> "D"
            [] (i - 1) % 4 = 2 -> "C" [] (i - 1) % 4 = 3 -> "S">> ]

HAND_RANKS ==
    [ HighCard |-> 1, Pair |-> 2, TwoPair |-> 3, ThreeOfAKind |-> 4,
      Straight |-> 5, Flush |-> 6, FullHouse |-> 7, FourOfAKind |-> 8,
      StraightFlush |-> 9, RoyalFlush |-> 10 ]

\* Python orders the suit strings by code point: 'C' < 'D' < 'H' < 'S'.
SuitOrd(s) == CASE s = "C" -> 0 [] s = "D" -> 1 [] s = "H" -> 2 [] s = "S" -> 3

\* Python's tuple comparison c < d on cards: rank first, then suit.
CardLess(c, d) == c[1] < d[1] \/ (c[1] = d[1] /\ SuitOrd(c[2]) < SuitOrd(d[2]))

Range(s) == { s[i] : i \in 1..Len(s) }

IsDuplicateFree(s) == \A i, j \in 1..Len(s) : i # j => s[i] # s[j]

Reverse(s) == [ i \in 1..Len(s) |-> s[Len(s) + 1 - i] ]

\* s[-n:] of Python
LastN(s, n) == IF Len(s) <= n THEN s ELSE SubSeq(s, Len(s) - n + 1, Len(s))

RECURSIVE Insert(_, _)
Insert(c, s) ==
    IF s = <<>> THEN <<c>>
    ELSE IF CardLess(c, Head(s)) THEN <<c>> \o s
    ELSE <<Head(s)>> \o Insert(c, Tail(s))

\* list.sort() / sorted() on a list of cards: ascending.
RECURSIVE sorted(_)
sorted(s) == IF s = <<>> THEN <<>> ELSE Insert(Head(s), sorted(Tail(s)))

\* sorted(set(...)) on a set of integers: the ascending sequence of its members.
RECURSIVE SortedInts(_)
SortedInts(S) ==
    IF S = {} THEN <<>>
    ELSE LET m == CHOOSE x \in S : \A y \in S : x <= y
         IN  <<m>> \o SortedInts(S \ {m})

----------------------------------------------------------------------------
(* evaluate_hand *)

\* The rank groups of evaluate_hand.  numbers maps a rank to the list of its
\* cards seen so far (<<>>: the key is absent).  The source binds pair1,
\* pair2, three_oak and four_oak to the list object numbers[rank] itself, so
\* each is modelled as the rank it refers to (0: the empty list []), and is
\* read through GroupCards once the loop is over.
NoGroups ==
    [ numbers |-> [ r \in Ranks |-> <<>> ],
      pair1 |-> 0, pair2 |-> 0, three_oak |-> 0, four_oak |-> 0 ]

\* One iteration of the loop over combined_hand, the rank part (lines 206-238).
GroupStep(g, t) ==
    LET r     == t[1]
        nums  == [ g.numbers EXCEPT ![r] = Append(@, t) ]
        n     == Len(nums[r])
        \* len == 2: build pairs
        to2   == n = 2 /\ (g.pair2 = 0 \/ r > g.pair2)
        to1   == n = 2 /\ ~to2 /\ (g.pair1 = 0 \/ r > g.pair1)
        p2a   == IF to2 THEN r ELSE g.pair2
        p1a   == IF to1 THEN r ELSE g.pair1
        \* line 220 compares pair2[0][0] with itself
        swap  == n = 2 /\ p2a # 0 /\ p1a # 0 /\ p2a > p2a
        p1b   == IF swap THEN p2a ELSE p1a
        p2b   == IF swap THEN p1a ELSE p2a
        \* len == 3: three of a kind, erase the pair it grew from
        t3a   == IF n = 3 /\ (g.three_oak = 0 \/ r > g.three_oak)
                 THEN r ELSE g.three_oak
        del1  == n = 3 /\ p1b # 0 /\ r = p1b
        del2  == n = 3 /\ ~del1 /\ p2b # 0 /\ r = p2b
        p1c   == IF del1 THEN 0 ELSE p1b
        p2c   == IF del2 THEN 0 ELSE p2b
        \* len == 4: four of a kind, erase three_oak
        f4    == IF n = 4 /\ (g.four_oak = 0 \/ r > g.four_oak)
                 THEN r ELSE g.four_oak
        t3b   == IF n = 4 THEN 0 ELSE t3a
    IN  IF g.numbers[r] = <<>>
        THEN [ g EXCEPT !.numbers = nums ]
        ELSE [ numbers |-> nums, pair1 |-> p1c, pair2 |-> p2c,
               three_oak |-> t3b, four_oak |-> f4 ]

RECURSIVE Groups(_, _)
Groups(g, hand) ==
    IF hand = <<>> THEN g ELSE Groups(GroupStep(g, Head(hand)), Tail(hand))

\* The list a group variable is bound to when the loop is over.
GroupCards(g, ref) == IF ref = 0 THEN <<>> ELSE g.numbers[ref]

\* hearts, spades, clubs, diamonds (lines 240-248): the cards of one suit, in
\* the order of combined_hand.
SuitCards(hand, s) == SelectSeq(hand, LAMBDA t : t[2] = s)

\* The inner loop over j (lines 259-271): the run of consecutive values that
\* starts at index i.
RECURSIVE Run(_, _)
Run(values, i) ==
    IF i < Len(values) /\ values[i + 1] = values[i] + 1
    THEN <<values[i]>> \o Run(values, i + 1)
    ELSE <<values[i]>>

\* The outer loop over i (lines 257-271).  current_straight is bound to
\* straight as soon as it has 5 values and keeps growing afterwards, so
\* straight ends as the whole run of the last i whose run has 5 or more.
RECURSIVE ScanStraight(_, _, _)
ScanStraight(values, i, straight) ==
    IF i > Len(values) THEN straight
    ELSE LET current_straight == Run(values, i)
         IN  ScanStraight(values, i + 1,
                 IF Len(current_straight) >= 5 THEN Range(current_straight)
                 ELSE straight)

\* Lines 250-271: the ranks of the straight, {} when there is none.  The
\* source holds them in a set (the wheel) or a list of distinct values; only
\* membership and removal are used on it.
StraightRanks(hand) ==
    LET values == SortedInts({ hand[i][1] : i \in 1..Len(hand) })
        wheel  == IF {2, 3, 4, 5, 14} \subseteq Range(values)
                  THEN {2, 3, 4, 5, 14} ELSE {}
    IN  ScanStraight(values, 1, wheel)

\* Lines 273-278: the first card of combined_hand of each rank of straight.
RECURSIVE PickStraight(_, _)
PickStraight(hand, straight) ==
    IF hand = <<>> THEN <<>>
    ELSE IF Head(hand)[1] \in straight
         THEN <<Head(hand)>> \o PickStraight(Tail(hand), straight \ {Head(hand)[1]})
         ELSE PickStraight(Tail(hand), straight)

\* Lines 274-279
NewStraight(hand) == LastN(PickStraight(hand, StraightRanks(hand)), 5)

\* FlushCards without its last branch, elif len(spades) >= 5.
FlushCardsNoSpades(hand, new_straight) ==
    IF Len(new_straight) >= 5
    THEN      IF Len(SuitCards(hand, "H")) >= 5 THEN LastN(sorted(SuitCards(hand, "H")), 5)
         ELSE IF Len(SuitCards(hand, "D")) >= 5 THEN LastN(sorted(SuitCards(hand, "D")), 5)
         ELSE IF Len(SuitCards(hand, "C")) >= 5 THEN LastN(sorted(SuitCards(hand, "C")), 5)
         ELSE <<>>
    ELSE <<>>

\* Lines 282-290: flush is filled in only when a straight was found.
FlushCards(hand, new_straight) ==
    IF Len(new_straight) >= 5
    THEN      IF Len(SuitCards(hand, "H")) >= 5 THEN LastN(sorted(SuitCards(hand, "H")), 5)
         ELSE IF Len(SuitCards(hand, "D")) >= 5 THEN LastN(sorted(SuitCards(hand, "D")), 5)
         ELSE IF Len(SuitCards(hand, "C")) >= 5 THEN LastN(sorted(SuitCards(hand, "C")), 5)
         ELSE IF Len(SuitCards(hand, "S")) >= 5 THEN LastN(sorted(SuitCards(hand, "S")), 5)
         ELSE <<>>
    ELSE <<>>

\* get_high_cards: the 5 - len(best_hand) last cards of combined_hand that
\* are not in best_hand, highest first.
get_high_cards(combined_hand, best_hand) ==
    LET num_cards  == 5 - Len(best_hand)
        cards_left == Reverse(SelectSeq(combined_hand,
                                        LAMBDA c : c \notin Range(best_hand)))
    IN  IF num_cards <= 0 THEN <<>> ELSE SubSeq(cards_left, 1, num_cards)

\* evaluate_hand: the best hand and its rank, as the source computes them.
evaluate_hand(hole_cards, community_cards) ==
    LET combined_hand == sorted(hole_cards \o community_cards)
        g             == Groups(NoGroups, combined_hand)
        four_oak      == GroupCards(g, g.four_oak)
        three_oak     == GroupCards(g, g.three_oak)
        pair1         == GroupCards(g, g.pair1)
        pair2         == GroupCards(g, g.pair2)
        new_straight  == NewStraight(combined_hand)
        flush         == FlushCards(combined_hand, new_straight)
    IN  IF /\ Len(new_straight) >= 5
           /\ Len(flush) > 0
           /\ new_straight[Len(new_straight)][1] = flush[Len(flush)][1]
        THEN IF new_straight[Len(new_straight)][1] = 14
             THEN [ best_hand |-> new_straight, rank |-> HAND_RANKS.RoyalFlush ]
             ELSE [ best_hand |-> new_straight, rank |-> HAND_RANKS.StraightFlush ]
        ELSE IF Len(four_oak) > 0
        THEN [ best_hand |-> four_oak \o get_high_cards(combined_hand, four_oak),
               rank |-> HAND_RANKS.FourOfAKind ]
        ELSE IF Len(three_oak) > 0
        THEN [ best_hand |-> IF Len(pair1) > 0 THEN three_oak \o pair1
                             ELSE IF Len(pair2) > 0 THEN three_oak \o pair2
                             ELSE <<>>,
               rank |-> HAND_RANKS.FullHouse ]
        ELSE IF Len(flush) > 0
        THEN [ best_hand |-> flush, rank |-> HAND_RANKS.Flush ]
        ELSE IF Len(new_straight) > 0
        THEN [ best_hand |-> new_straight, rank |-> HAND_RANKS.Straight ]
        \* lines 336-343: never taken, line 312 has already returned for every
        \* non-empty three_oak
        ELSE IF Len(three_oak) > 0
        THEN [ best_hand |-> three_oak \o get_high_cards(combined_hand, three_oak),
               rank |-> HAND_RANKS.ThreeOfAKind ]
        ELSE IF Len(pair1) > 0 /\ Len(pair2) > 0
        THEN [ best_hand |-> pair1 \o pair2
                             \o get_high_cards(combined_hand, pair1 \o pair2),
               rank |-> HAND_RANKS.TwoPair ]
        ELSE IF Len(pair2) > 0
        THEN [ best_hand |-> pair2 \o get_high_cards(combined_hand, pair2),
               rank |-> HAND_RANKS.Pair ]
        ELSE [ best_hand |-> get_high_cards(combined_hand, <<>>),
               rank |-> HAND_RANKS.HighCard ]

----------------------------------------------------------------------------
(* Node, draw_cards, rollout, selection, expansion, backpropagation *)

\* The value of a rollout, doubled so that the tie's 0.5 is an integer:
\* rollout returns 1 (win), 0.5 (tie) or 0 (loss).
Win == 2
Tie == 1
Loss == 0

\* Node.__init__; parent is an index into nodes, 0 for None.
Node(hole_cards, community_cards, remaining_deck, parent) ==
    [ hole_cards |-> hole_cards, community_cards |-> community_cards,
      remaining_deck |-> remaining_deck, parent |-> parent,
      children |-> <<>>, wins |-> 0, simulations |-> 0 ]

\* Node.update
update(node, res) ==
    [ node EXCEPT !.simulations = @ + 1,
                  !.wins = IF res = Win THEN @ + 1 ELSE @ ]

\* draw_cards stopping when the deck is empty, giving the cards there are.
draw_cardsShort(deck, num_cards) ==
    IF num_cards > Len(deck)
    THEN [ raised |-> FALSE, drawn_cards |-> deck, remaining_deck |-> <<>> ]
    ELSE IF num_cards <= 0
    THEN [ raised |-> FALSE, drawn_cards |-> <<>>, remaining_deck |-> deck ]
    ELSE [ raised |-> FALSE, drawn_cards |-> SubSeq(deck, 1, num_cards),
           remaining_deck |-> SubSeq(deck, num_cards + 1, Len(deck)) ]

\* draw_cards: pop(0) num_cards times from a copy of deck; pop on an empty
\* list raises IndexError.
draw_cards(deck, num_cards) ==
    IF num_cards > Len(deck)
    THEN [ raised |-> TRUE, drawn_cards |-> <<>>, remaining_deck |-> <<>> ]
    ELSE IF num_cards <= 0
    THEN [ raised |-> FALSE, drawn_cards |-> <<>>, remaining_deck |-> deck ]
    ELSE [ raised |-> FALSE, drawn_cards |-> SubSeq(deck, 1, num_cards),
           remaining_deck |-> SubSeq(deck, num_cards + 1, Len(deck)) ]

\* random.shuffle: every ordering of the list is a possible outcome.
Shuffles(deck) ==
    { [ i \in 1..Len(deck) |-> deck[p[i]] ] :
        p \in { q \in [ 1..Len(deck) -> 1..Len(deck) ] :
                  \A i, j \in 1..Len(deck) : i # j => q[i] # q[j] } }

\* sorted([card[0] for card in hand], reverse=True)
RECURSIVE InsertDesc(_, _)
InsertDesc(v, s) ==
    IF s = <<>> THEN <<v>>
    ELSE IF v >= Head(s) THEN <<v>> \o s
    ELSE <<Head(s)>> \o InsertDesc(v, Tail(s))

RECURSIVE ValuesDesc(_)
ValuesDesc(hand) ==
    IF hand = <<>> THEN <<>> ELSE InsertDesc(Head(hand)[1], ValuesDesc(Tail(hand)))

\* Lines 505-512: the loop over zip(my_values, opp_values), from index i.
RECURSIVE CompareValues(_, _, _)
CompareValues(my_values, opp_values, i) ==
    IF i > Len(my_values) \/ i > Len(opp_values) THEN Tie
    ELSE IF my_values[i] > opp_values[i] THEN Win
    ELSE IF my_values[i] < opp_values[i] THEN Loss
    ELSE CompareValues(my_values, opp_values, i + 1)

\* Lines 495-512
CompareHands(my, opp) ==
    IF my.rank > opp.rank THEN Win
    ELSE IF my.rank < opp.rank THEN Loss
    ELSE CompareValues(ValuesDesc(my.best_hand), ValuesDesc(opp.best_hand), 1)

\* Lines 491-512 of rollout: both hands are evaluated and compared.
Showdown(hole_cards, opponent_cards, full_community) ==
    [ raised |-> FALSE,
      result |-> CompareHands(evaluate_hand(hole_cards, full_community),
                              evaluate_hand(opponent_cards, full_community)),
      opponent_cards |-> opponent_cards, full_community |-> full_community ]

\* Lines 481-489 of rollout: the board is completed from the deck left by
\* the opponent's draw.
CompleteBoard(sim_community, deck) ==
    IF 5 - Len(sim_community) > 0
    THEN draw_cards(deck, 5 - Len(sim_community))
    ELSE [ raised |-> FALSE, drawn_cards |-> <<>>, remaining_deck |-> deck ]

\* Lines 479-512 of rollout, given the filtered deck; raised: draw_cards ran
\* out of cards (IndexError).
Deal(hole_cards, sim_community, sim_deck) ==
    IF \/ draw_cards(sim_deck, 2).raised
       \/ CompleteBoard(sim_community, draw_cards(sim_deck, 2).remaining_deck).raised
    THEN [ raised |-> TRUE, result |-> Loss, opponent_cards |-> <<>>,
           full_community |-> <<>> ]
    ELSE Showdown(hole_cards, draw_cards(sim_deck, 2).drawn_cards,
                  sim_community \o CompleteBoard(sim_community,
                      draw_cards(sim_deck, 2).remaining_deck).drawn_cards)

\* rollout dealing from the shuffled deck as it is, hole and community cards
\* included.
rolloutUnfiltered(node, sim_deck) ==
    Deal(node.hole_cards, node.community_cards, sim_deck)

\* rollout, given the outcome sim_deck of random.shuffle: the result, with
\* the cards that were dealt.
rollout(node, sim_deck) ==
    Deal(node.hole_cards, node.community_cards,
         SelectSeq(SelectSeq(sim_deck, LAMBDA c : c \notin Range(node.hole_cards)),
                   LAMBDA c : c \notin Range(node.community_cards)))

\* The node after a rollout that shuffles node.remaining_deck itself.
NodeShuffledInPlace(node, sim_deck) ==
    [ node EXCEPT !.remaining_deck = sim_deck ]

\* The node after rollout(node) whose shuffle gave sim_deck.  Lines 467-472
\* copy the three lists of the node: the shuffle, the filters and the draws
\* act on the copies, evaluate_hand sorts the new list hole_cards +
\* community_cards (lines 201-203), and no statement of rollout assigns to a
\* field of node.
NodeAfterRollout(node, sim_deck) ==
    [ node EXCEPT !.remaining_deck = node.remaining_deck ]

\* The children that can end as best_child if an unvisited child's UCB1 value
\* were a number like the others: any child.
BestChildrenAny(tree, current) == Range(tree[current].children)

\* Lines 443-453: the children that can end as best_child.  ucb1 is
\* float('inf') for an unvisited child and the comparison is strict, so the
\* first unvisited child wins when there is one; otherwise the UCB1 values
\* are real numbers (wins/n + c*sqrt(ln(N)/n)) that are not computed here,
\* and every child is a possible maximum.
BestChildren(tree, current) ==
    LET kids      == tree[current].children
        unvisited == { i \in 1..Len(kids) : tree[kids[i]].simulations = 0 }
    IN  IF unvisited # {}
        THEN { kids[CHOOSE i \in unvisited : \A j \in unvisited : i <= j] }
        ELSE Range(kids)

\* selection that does not descend: it stops at the node it is given.
selectionStopsAtOnce(tree, node) == {node}

\* selection: the nodes the descent from node can stop at.
RECURSIVE selection(_, _)
selection(tree, node) ==
    IF Len(tree[node].children) > 0 /\ tree[node].simulations > 0
    THEN UNION { selection(tree, c) : c \in BestChildren(tree, node) }
    ELSE {node}

\* Node.add_child, called by expansion: the tree with one more node, the
\* new child last.
add_child(tree, node, hole_cards, community_cards, remaining_deck) ==
    Append([ tree EXCEPT ![node].children = Append(@, Len(tree) + 1) ],
           Node(hole_cards, community_cards, remaining_deck, node))

\* expansion giving the child the deck without its first card.
expansionDrawsCard(tree, node) ==
    add_child(tree, node, tree[node].hole_cards, tree[node].community_cards,
              Tail(tree[node].remaining_deck))

\* expansion
expansion(tree, node) ==
    add_child(tree, node, tree[node].hole_cards, tree[node].community_cards,
              tree[node].remaining_deck)

\* backpropagation stopping below the root (while current.parent is not None).
RECURSIVE backpropagationBelowRoot(_, _, _)
backpropagationBelowRoot(tree, node, res) ==
    IF node = 0 \/ tree[node].parent = 0 THEN tree
    ELSE backpropagationBelowRoot([ tree EXCEPT ![node] = update(@, res) ],
                                  tree[node].parent, res)

\* backpropagation: update node and every ancestor of it.
RECURSIVE backpropagation(_, _, _)
backpropagation(tree, node, res) ==
    IF node = 0 THEN tree
    ELSE backpropagation([ tree EXCEPT ![node] = update(@, res) ],
                         tree[node].parent, res)

----------------------------------------------------------------------------
(* evaluate_hand called on a pool of cards *)

\* No call of rollout, draw_cards or main on its own is under way.
CallsIdle ==
    /\ rolled = <<>>
    /\ drawn = [ deck |-> <<>>, num_cards |-> 0, out |-> <<>> ]
    /\ game = [ pc |-> "idle", deck |-> <<>>, hole_cards |-> <<>>,
                community_cards |-> <<>>, phase |-> 0, calls |-> <<>>,
                decisions |-> <<>> ]

\* No call of mcts is under way.
MctsIdle ==
    /\ pc = "idle"
    /\ clock = 0
    /\ start_time = 0
    /\ nodes = <<>>
    /\ selected_node = 0
    /\ result = -1
    /\ wins = 0
    /\ ties = 0
    /\ losses = 0
    /\ total_simulations = 0
    /\ win_probability = <<0, 1>>
    /\ decision = ""
    /\ started = 0
    /\ backpropagated = 0

\* The strictly increasing sequences of k indices in lo..n: the ways to
\* pick k cards of an n-card list.
RECURSIVE IncSeqs(_, _, _)
IncSeqs(k, lo, n) ==
    IF k = 0 THEN {<<>>}
    ELSE UNION { { <<i>> \o s : s \in IncSeqs(k - 1, i + 1, n) } : i \in lo..n }

\* The cards of deck at the indices idx.
Pick(deck, idx) == [ i \in 1..Len(idx) |-> deck[idx[i]] ]

\* The arguments of a call on the cards of a pool: the first two as hole
\* cards, the others as community cards.
PoolCall(cards) ==
    /\ hole = SubSeq(cards, 1, 2)
    /\ community = SubSeq(cards, 3, Len(cards))
    /\ evaluated = <<>>

\* The pools of the evaluator's runs: 5 to 7 cards of the ranks
\* 2..MaxLowRank and the ace, in three suits.
MaxLowRank == 6
EvalSuits == {"H", "D", "C"}
EvalDeck == SelectSeq(DECK, LAMBDA c : (c[1] <= MaxLowRank \/ c[1] = 14) /\ c[2] \in EvalSuits)

InitEval ==
    /\ MctsIdle
    /\ CallsIdle
    /\ \E k \in 5..7 : \E idx \in IncSeqs(k, 1, Len(EvalDeck)) :
          PoolCall(Pick(EvalDeck, idx))

\* The 7-card pools that hold 10, J, Q, K, A of one suit, from the whole DECK.
RoyalCards(s) == SelectSeq(DECK, LAMBDA c : c[1] >= 10 /\ c[2] = s)
OtherCards(s) == SelectSeq(DECK, LAMBDA c : ~(c[1] >= 10 /\ c[2] = s))

InitRoyal ==
    /\ MctsIdle
    /\ CallsIdle
    /\ \E s \in Suits : \E idx \in IncSeqs(2, 1, Len(OtherCards(s))) :
          PoolCall(Pick(OtherCards(s), idx) \o RoyalCards(s))

\* evaluate_hand(hole, community) is called and returns.
Evaluate ==
    /\ pc = "idle"
    /\ evaluated = <<>>
    /\ evaluated' = <<evaluate_hand(hole, community)>>
    /\ UNCHANGED <<hole, community, mctsVars, callVars>>

NextEval == Evaluate

SpecEval == InitEval /\ [][NextEval]_vars

SpecRoyal == InitRoyal /\ [][NextEval]_vars

----------------------------------------------------------------------------
(* One call of mcts *)

\* mcts: the default of the parameter time_limit, in seconds.
time_limit == 10

\* The model's bounds: the clock stops at MaxClock, and the loop body is not
\* entered again once MaxSims simulations are complete.
MaxClock == 11
MaxSims == 4

\* The calls of mcts that are run: at the river (5 community cards) and at
\* the turn (4), each with a remaining deck of 4 cards that makes a win, a
\* tie and a loss all possible.
Scenarios ==
    { [ hole_cards      |-> << <<13, "H">>, <<2, "D">> >>,
        community_cards |-> << <<9, "C">>, <<9, "D">>, <<5, "S">>, <<7, "H">>, <<12, "C">> >>,
        remaining_deck  |-> << <<13, "S">>, <<2, "S">>, <<14, "H">>, <<3, "C">> >> ],
      [ hole_cards      |-> << <<13, "H">>, <<2, "D">> >>,
        community_cards |-> << <<9, "C">>, <<9, "D">>, <<5, "S">>, <<7, "H">> >>,
        remaining_deck  |-> << <<13, "S">>, <<2, "S">>, <<12, "C">>, <<3, "C">> >> ] }

\* No call of evaluate_hand on its own is under way.
EvalIdle ==
    /\ hole = <<>>
    /\ community = <<>>
    /\ evaluated = <<>>

\* Lines 384-392: the counters are zero, start_time is read off the clock and
\* the root node is made.
Init ==
    /\ EvalIdle
    /\ CallsIdle
    /\ pc = "loop"
    /\ clock = 0
    /\ start_time = 0
    /\ \E sc \in Scenarios :
          nodes = << Node(sc.hole_cards, sc.community_cards, sc.remaining_deck, 0) >>
    /\ selected_node = 0
    /\ result = -1
    /\ wins = 0
    /\ ties = 0
    /\ losses = 0
    /\ total_simulations = 0
    /\ win_probability = <<0, 1>>
    /\ decision = ""
    /\ started = 0
    /\ backpropagated = 0

root == 1

\* time.time() moves on, whatever mcts is doing.
Tick ==
    /\ pc \notin {"idle", "done", "ZeroDivisionError", "IndexError"}
    /\ clock < MaxClock
    /\ clock' = clock + 1
    /\ UNCHANGED <<evalVars, callVars, pc, start_time, nodes, selected_node, result, wins,
                   ties, losses, total_simulations, win_probability, decision,
                   started, backpropagated>>

\* Line 395, the test passes: the loop body is entered.
LoopEnter ==
    /\ pc = "loop"
    /\ clock - start_time < time_limit
    /\ total_simulations < MaxSims
    /\ pc' = "selection"
    /\ UNCHANGED <<evalVars, callVars, clock, start_time, nodes, selected_node, result,
                   wins, ties, losses, total_simulations, win_probability,
                   decision, started, backpropagated>>

\* Line 395, the test fails: the loop is left.
LoopExit ==
    /\ pc = "loop"
    /\ ~(clock - start_time < time_limit)
    /\ pc' = "report"
    /\ UNCHANGED <<evalVars, callVars, clock, start_time, nodes, selected_node, result,
                   wins, ties, losses, total_simulations, win_probability,
                   decision, started, backpropagated>>

\* Line 397
Selection ==
    /\ pc = "selection"
    /\ selected_node' \in selection(nodes, root)
    /\ pc' = "expansion"
    /\ UNCHANGED <<evalVars, callVars, clock, start_time, nodes, result, wins, ties,
                   losses, total_simulations, win_probability, decision,
                   started, backpropagated>>

\* Lines 400-401
Expansion ==
    /\ pc = "expansion"
    /\ IF nodes[selected_node].simulations > 0
       THEN /\ nodes' = expansion(nodes, selected_node)
            /\ selected_node' = Len(nodes) + 1
       ELSE UNCHANGED <<nodes, selected_node>>
    /\ pc' = "rollout"
    /\ UNCHANGED <<evalVars, callVars, clock, start_time, result, wins, ties, losses,
                   total_simulations, win_probability, decision, started,
                   backpropagated>>

\* Line 404: a rollout is started and returns (or raises IndexError when
\* the deck runs out).
Rollout ==
    /\ pc = "rollout"
    /\ \E sim_deck \in Shuffles(nodes[selected_node].remaining_deck) :
          LET r == rollout(nodes[selected_node], sim_deck)
          IN  IF r.raised
              THEN /\ pc' = "IndexError"
                   /\ UNCHANGED result
              ELSE /\ pc' = "backpropagation"
                   /\ result' = r.result
    /\ started' = started + 1
    /\ UNCHANGED <<evalVars, callVars, clock, start_time, nodes, selected_node, wins,
                   ties, losses, total_simulations, win_probability, decision,
                   backpropagated>>

\* Line 407
Backpropagation ==
    /\ pc = "backpropagation"
    /\ nodes' = backpropagation(nodes, selected_node, result)
    /\ backpropagated' = backpropagated + 1
    /\ pc' = "count"
    /\ UNCHANGED <<evalVars, callVars, clock, start_time, selected_node, result, wins,
                   ties, losses, total_simulations, win_probability, decision,
                   started>>

\* Count with a tie taken for neither a win, a tie nor a loss.
CountDropsTie ==
    /\ pc = "count"
    /\ wins' = IF result = Win THEN wins + 1 ELSE wins
    /\ ties' = ties
    /\ losses' = IF result = Loss THEN losses + 1 ELSE losses
    /\ total_simulations' = total_simulations + 1
    /\ pc' = "loop"
    /\ UNCHANGED <<evalVars, callVars, clock, start_time, nodes, selected_node, result,
                   win_probability, decision, started, backpropagated>>

\* Lines 410-416
Count ==
    /\ pc = "count"
    /\ wins' = IF result = Win THEN wins + 1 ELSE wins
    /\ ties' = IF result # Win /\ result = Tie THEN ties + 1 ELSE ties
    /\ losses' = IF result # Win /\ result # Tie THEN losses + 1 ELSE losses
    /\ total_simulations' = total_simulations + 1
    /\ pc' = "loop"
    /\ UNCHANGED <<evalVars, callVars, clock, start_time, nodes, selected_node, result,
                   win_probability, decision, started, backpropagated>>

\* Line 419: (wins + ties * 0.5) / total_simulations as the fraction
\* (2 * wins + ties) / (2 * total_simulations), 0 without simulations.
WinProbability(w, t, n) == IF n > 0 THEN <<2 * w + t, 2 * n>> ELSE <<0, 1>>

\* Lines 419-425: the win probability is computed and the statistics are
\* printed; wins/total_simulations in line 423 is evaluated whatever
\* total_simulations is, and raises ZeroDivisionError when it is 0.
Report ==
    /\ pc = "report"
    /\ win_probability' = WinProbability(wins, ties, total_simulations)
    /\ pc' = IF total_simulations = 0 THEN "ZeroDivisionError" ELSE "decide"
    /\ UNCHANGED <<evalVars, callVars, clock, start_time, nodes, selected_node, result,
                   wins, ties, losses, total_simulations, decision, started,
                   backpropagated>>

\* The decision with > in place of >=.
DecisionStrict(p) == IF 2 * p[1] > p[2] THEN "stay" ELSE "fold"

\* Line 428: "stay" if win_probability >= 0.5 else "fold"
Decision(p) == IF 2 * p[1] >= p[2] THEN "stay" ELSE "fold"

\* Lines 428-430: the decision is made and mcts returns.
Decide ==
    /\ pc = "decide"
    /\ decision' = Decision(win_probability)
    /\ pc' = "done"
    /\ UNCHANGED <<evalVars, callVars, clock, start_time, nodes, selected_node, result,
                   wins, ties, losses, total_simulations, win_probability,
                   started, backpropagated>>

Next ==
    \/ Tick
    \/ LoopEnter
    \/ LoopExit
    \/ Selection
    \/ Expansion
    \/ Rollout
    \/ Backpropagation
    \/ Count
    \/ Report
    \/ Decide

Spec == Init /\ [][Next]_vars

----------------------------------------------------------------------------
(* rollout called on a node *)

\* The largest remaining deck of a node rollout is called on.
MaxDeck == 5

\* The nodes rollout is called on: hole cards and community cards of the
\* river (5 cards), the turn (4) and the flop (3), and the cards the node's
\* remaining deck is taken from.  The last two cards of each list are a hole
\* card and a community card of the node, which lines 475-476 filter out.
RolloutScenarios ==
    { \* three nines on the board, no pair in the player's pool
      [ hole_cards      |-> << <<13, "H">>, <<2, "D">> >>,
        community_cards |-> << <<9, "C">>, <<9, "D">>, <<9, "H">>, <<5, "S">>, <<7, "H">> >>,
        cards           |-> << <<13, "S">>, <<13, "D">>, <<2, "S">>, <<14, "H">>, <<3, "C">>,
                               <<13, "H">>, <<9, "C">> >> ],
      \* a pair of nines on the board
      [ hole_cards      |-> << <<13, "H">>, <<2, "D">> >>,
        community_cards |-> << <<9, "C">>, <<9, "D">>, <<5, "S">>, <<7, "H">>, <<12, "C">> >>,
        cards           |-> << <<13, "S">>, <<2, "S">>, <<14, "H">>, <<3, "C">>, <<7, "D">>,
                               <<2, "D">>, <<5, "S">> >> ],
      \* 2 3 4 5 on the board at the turn, the player holds an ace
      [ hole_cards      |-> << <<14, "H">>, <<9, "D">> >>,
        community_cards |-> << <<2, "H">>, <<3, "D">>, <<4, "C">>, <<5, "S">> >>,
        cards           |-> << <<6, "C">>, <<10, "D">>, <<12, "C">>, <<14, "S">>, <<6, "D">>,
                               <<9, "D">>, <<2, "H">> >> ],
      \* 2 3 4 on the board at the flop, the player holds a six and a five
      [ hole_cards      |-> << <<6, "H">>, <<5, "D">> >>,
        community_cards |-> << <<2, "H">>, <<3, "D">>, <<4, "C">> >>,
        cards           |-> << <<14, "C">>, <<5, "C">>, <<12, "C">>, <<10, "S">>, <<8, "D">>,
                               <<6, "H">>, <<4, "C">> >> ] }

\* A node is made of a scenario and of 2..MaxDeck of its cards, and rollout
\* has not been called.
InitRollout ==
    /\ EvalIdle
    /\ pc = "idle"
    /\ clock = 0
    /\ start_time = 0
    /\ \E sc \in RolloutScenarios : \E k \in 2..MaxDeck :
          \E idx \in IncSeqs(k, 1, Len(sc.cards)) :
             nodes = << Node(sc.hole_cards, sc.community_cards, Pick(sc.cards, idx), 0) >>
    /\ selected_node = 0
    /\ result = -1
    /\ wins = 0
    /\ ties = 0
    /\ losses = 0
    /\ total_simulations = 0
    /\ win_probability = <<0, 1>>
    /\ decision = ""
    /\ started = 0
    /\ backpropagated = 0
    /\ CallsIdle

\* rollout(nodes[1]) is called and returns, or raises IndexError.
RolloutCall ==
    /\ pc = "idle"
    /\ nodes # <<>>
    /\ rolled = <<>>
    /\ \E sim_deck \in Shuffles(nodes[1].remaining_deck) :
          /\ rolled' = << rollout(nodes[1], sim_deck) >>
          /\ nodes' = << NodeAfterRollout(nodes[1], sim_deck) >>
    /\ UNCHANGED <<evalVars, pc, clock, start_time, selected_node, result, wins,
                   ties, losses, total_simulations, win_probability, decision,
                   started, backpropagated, drawn, game>>

NextRollout == RolloutCall

SpecRollout == InitRollout /\ [][NextRollout]_vars

----------------------------------------------------------------------------
(* draw_cards called on a deck *)

\* The decks draw_cards is called on have up to MaxDrawDeck cards, and up to
\* MaxDraw cards are asked for.
MaxDrawDeck == 3
MaxDraw == 4

\* The cards those decks are made of: the first five of DECK.
DrawCards == SubSeq(DECK, 1, 5)

\* The list deck after draw_cards(deck, num_cards): line 144 copies it and
\* the pops of line 147 act on the copy.
DeckAfterDraw(deck, num_cards) ==
    [ i \in 1..Len(deck) |-> deck[i] ]

\* The arguments of the call are chosen: a deck in any order and a number.
InitDraw ==
    /\ EvalIdle
    /\ MctsIdle
    /\ rolled = <<>>
    /\ \E k \in 0..MaxDrawDeck : \E idx \in IncSeqs(k, 1, Len(DrawCards)) :
          \E deck \in Shuffles(Pick(DrawCards, idx)) : \E num_cards \in 0..MaxDraw :
             drawn = [ deck |-> deck, num_cards |-> num_cards, out |-> <<>> ]
    /\ game = [ pc |-> "idle", deck |-> <<>>, hole_cards |-> <<>>,
                community_cards |-> <<>>, phase |-> 0, calls |-> <<>>,
                decisions |-> <<>> ]

\* draw_cards(drawn.deck, drawn.num_cards) is called and returns or raises.
DrawCall ==
    /\ drawn.out = <<>>
    /\ drawn' = [ drawn EXCEPT
                    !.out = << draw_cards(drawn.deck, drawn.num_cards) >>,
                    !.deck = DeckAfterDraw(drawn.deck, drawn.num_cards) ]
    /\ UNCHANGED <<evalVars, mctsVars, rolled, game>>

NextDraw == DrawCall

SpecDraw == InitDraw /\ [][NextDraw]_vars

----------------------------------------------------------------------------
(* main: one game *)

\* Line 543
phases == <<"pre-flop", "flop", "turn", "river">>

\* deal_community_cards leaving in the deck the cards it deals.
deal_community_cardsKeepsDeck(deck, phase, existing_community_cards) ==
    IF phase = "pre-flop"
    THEN [ raised |-> FALSE, new_community_cards |-> existing_community_cards,
           remaining_deck |-> deck ]
    ELSE IF phase = "flop" /\ Len(existing_community_cards) = 0
    THEN [ raised |-> draw_cards(deck, 3).raised,
           new_community_cards |->
               existing_community_cards \o draw_cards(deck, 3).drawn_cards,
           remaining_deck |-> deck ]
    ELSE IF \/ phase = "turn" /\ Len(existing_community_cards) = 3
            \/ phase = "river" /\ Len(existing_community_cards) = 4
    THEN [ raised |-> draw_cards(deck, 1).raised,
           new_community_cards |->
               existing_community_cards \o draw_cards(deck, 1).drawn_cards,
           remaining_deck |-> deck ]
    ELSE [ raised |-> FALSE, new_community_cards |-> existing_community_cards,
           remaining_deck |-> deck ]

\* deal_community_cards: nothing at the pre-flop, 3 cards at the flop on an
\* empty board, 1 at the turn on a board of 3, 1 at the river on a board of
\* 4, and nothing otherwise; the cards are drawn from the front of the deck.
deal_community_cards(deck, phase, existing_community_cards) ==
    IF phase = "pre-flop"
    THEN [ raised |-> FALSE, new_community_cards |-> existing_community_cards,
           remaining_deck |-> deck ]
    ELSE IF phase = "flop" /\ Len(existing_community_cards) = 0
    THEN [ raised |-> draw_cards(deck, 3).raised,
           new_community_cards |->
               existing_community_cards \o draw_cards(deck, 3).drawn_cards,
           remaining_deck |-> draw_cards(deck, 3).remaining_deck ]
    ELSE IF \/ phase = "turn" /\ Len(existing_community_cards) = 3
            \/ phase = "river" /\ Len(existing_community_cards) = 4
    THEN [ raised |-> draw_cards(deck, 1).raised,
           new_community_cards |->
               existing_community_cards \o draw_cards(deck, 1).drawn_cards,
           remaining_deck |-> draw_cards(deck, 1).remaining_deck ]
    ELSE [ raised |-> FALSE, new_community_cards |-> existing_community_cards,
           remaining_deck |-> deck ]

\* The outcomes of random.shuffle(deck) at line 547 that are run: DECK cut
\* after its first 0..MaxCut cards, and each of these cuts reversed.
MaxCut == 5
Cut(deck, r) == SubSeq(deck, r + 1, Len(deck)) \o SubSeq(deck, 1, r)
MainShuffles(deck) ==
    { Cut(deck, r) : r \in 0..MaxCut } \cup { Reverse(Cut(deck, r)) : r \in 0..MaxCut }

\* How a call of mcts can end for main: it returns "stay" or "fold", or it
\* raises ZeroDivisionError (line 423, when no simulation was run).
MctsOutcomes == {"stay", "fold", "ZeroDivisionError"}

\* main is about to run.
InitMain ==
    /\ EvalIdle
    /\ MctsIdle
    /\ rolled = <<>>
    /\ drawn = [ deck |-> <<>>, num_cards |-> 0, out |-> <<>> ]
    /\ game = [ pc |-> "start", deck |-> <<>>, hole_cards |-> <<>>,
                community_cards |-> <<>>, phase |-> 0, calls |-> <<>>,
                decisions |-> <<>> ]

\* Lines 546-553: the deck is shuffled and the two hole cards are drawn.
MainStart ==
    /\ game.pc = "start"
    /\ \E deck \in MainShuffles(DECK) :
          game' = [ game EXCEPT !.pc = "deal",
                                !.hole_cards = draw_cards(deck, 2).drawn_cards,
                                !.deck = draw_cards(deck, 2).remaining_deck,
                                !.community_cards = <<>>,
                                !.phase = 1 ]
    /\ UNCHANGED <<evalVars, mctsVars, rolled, drawn>>

\* Line 560: the community cards of the phase are dealt.
MainDeal ==
    /\ game.pc = "deal"
    /\ game' =
          IF deal_community_cards(game.deck, phases[game.phase],
                                  game.community_cards).raised
          THEN [ game EXCEPT !.pc = "IndexError" ]
          ELSE [ game EXCEPT
                   !.pc = "mcts",
                   !.community_cards =
                       deal_community_cards(game.deck, phases[game.phase],
                           game.community_cards).new_community_cards,
                   !.deck =
                       deal_community_cards(game.deck, phases[game.phase],
                           game.community_cards).remaining_deck ]
    /\ UNCHANGED <<evalVars, mctsVars, rolled, drawn>>

\* Lines 572-577 and the for loop, with fold not ending the game.
NextStepPlaysOn(decided, phase) ==
    IF phase = Len(phases) THEN "complete" ELSE "deal"

\* Lines 572-577 and the for loop: where main goes on after a decision.
NextStep(decided, phase) ==
    IF decided = "fold" THEN "folded"
    ELSE IF phase = Len(phases) THEN "complete" ELSE "deal"

\* Lines 566-577: mcts is called on the hole cards, the community cards and
\* the deck; main ends if it raises or decides to fold, and otherwise
\* removes the community cards from the deck and goes to the next phase.
MainMcts ==
    /\ game.pc = "mcts"
    /\ \E outcome \in MctsOutcomes :
          IF outcome = "ZeroDivisionError"
          THEN game' = [ game EXCEPT
                   !.pc = "ZeroDivisionError",
                   !.calls = Append(@, [ phase |-> phases[game.phase],
                                         hole_cards |-> game.hole_cards,
                                         community_cards |-> game.community_cards,
                                         remaining_deck |-> game.deck ]) ]
          ELSE game' = [ game EXCEPT
                   !.pc = NextStep(outcome, game.phase),
                   !.calls = Append(@, [ phase |-> phases[game.phase],
                                         hole_cards |-> game.hole_cards,
                                         community_cards |-> game.community_cards,
                                         remaining_deck |-> game.deck ]),
                   !.decisions = Append(@, outcome),
                   !.deck = IF NextStep(outcome, game.phase) = "folded" THEN @
                            ELSE SelectSeq(@, LAMBDA card :
                                     card \notin Range(game.community_cards)),
                   !.phase = IF NextStep(outcome, game.phase) = "deal"
                             THEN @ + 1 ELSE @ ]
    /\ UNCHANGED <<evalVars, mctsVars, rolled, drawn>>

NextMain ==
    \/ MainStart
    \/ MainDeal
    \/ MainMcts

SpecMain == InitMain /\ [][NextMain]_vars

----------------------------------------------------------------------------
(* selection called on a tree *)

\* The trees selection is called on have up to MaxNodes nodes, each with up
\* to MaxVisits simulations.
MaxNodes == 4
MaxVisits == 2

\* The simulations of the children of node i, summed over the nodes j..n.
RECURSIVE VisitsBelow(_, _, _, _)
VisitsBelow(parents, sims, i, j) ==
    IF j > Len(parents) THEN 0
    ELSE (IF parents[j] = i THEN sims[j] ELSE 0) + VisitsBelow(parents, sims, i, j + 1)

\* The tree made by add_child and update: node i is a child of parents[i]
\* (0 for the root), made after it; the children of a node are in the order
\* they were added; node i has sims[i] simulations.
TreeOf(parents, sims) ==
    [ i \in 1..Len(parents) |->
        [ Node(<< <<13, "H">>, <<2, "D">> >>,
               << <<9, "C">>, <<9, "D">>, <<5, "S">>, <<7, "H">>, <<12, "C">> >>,
               << <<13, "S">>, <<2, "S">>, <<14, "H">>, <<3, "C">> >>,
               parents[i])
          EXCEPT !.children = SortedInts({ j \in 1..Len(parents) : parents[j] = i }),
                 !.simulations = sims[i] ] ]

\* A tree is made with the methods of Node; every update of a node came
\* from a backpropagation, which also updated its parent, so that a node has
\* at least as many simulations as its children together.
InitSelection ==
    /\ EvalIdle
    /\ CallsIdle
    /\ pc = "idle"
    /\ clock = 0
    /\ start_time = 0
    /\ \E n \in 1..MaxNodes :
          \E parents \in { f \in [ 1..n -> 0..(n - 1) ] :
                             f[1] = 0 /\ \A i \in 2..n : f[i] \in 1..(i - 1) } :
             \E sims \in { g \in [ 1..n -> 0..MaxVisits ] :
                              \A i \in 1..n : g[i] >= VisitsBelow(parents, g, i, 1) } :
                nodes = TreeOf(parents, sims)
    /\ selected_node = 0
    /\ result = -1
    /\ wins = 0
    /\ ties = 0
    /\ losses = 0
    /\ total_simulations = 0
    /\ win_probability = <<0, 1>>
    /\ decision = ""
    /\ started = 0
    /\ backpropagated = 0

\* selection(root) is called and returns the node it stopped at; it assigns
\* to its local current only.
SelectionCall ==
    /\ pc = "idle"
    /\ nodes # <<>>
    /\ selected_node = 0
    /\ selected_node' \in selection(nodes, root)
    /\ UNCHANGED <<evalVars, callVars, pc, clock, start_time, nodes, result, wins,
                   ties, losses, total_simulations, win_probability, decision,
                   started, backpropagated>>

NextSelection == SelectionCall

SpecSelection == InitSelection /\ [][NextSelection]_vars

----------------------------------------------------------------------------
(* Properties of evaluate_hand *)

\* The pool of the call, and what the call returned.
Pool == hole \o community
Returned == evaluated # <<>>
BestHand == evaluated[1].best_hand
HandRank == evaluated[1].rank

\* The call is one the evaluator's contract covers.
ContractPool ==
    /\ Len(hole) = 2
    /\ Len(community) \in 3..5
    /\ IsDuplicateFree(Pool)

RanksOf(cards) == { cards[i][1] : i \in 1..Len(cards) }

CountRank(cards, r) == Cardinality({ i \in 1..Len(cards) : cards[i][1] = r })

CountSuit(cards, s) == Cardinality({ i \in 1..Len(cards) : cards[i][2] = s })

\* The category of exactly five cards, by the rules of poker.
Classify(five) ==
    LET rs       == RanksOf(five)
        hi       == CHOOSE r \in rs : \A q \in rs : q <= r
        lo       == CHOOSE r \in rs : \A q \in rs : r <= q
        flush    == \E s \in Suits : CountSuit(five, s) = 5
        straight == Cardinality(rs) = 5 /\ (hi - lo = 4 \/ rs = {2, 3, 4, 5, 14})
        most     == CHOOSE n \in 1..4 :
                       /\ \E r \in rs : CountRank(five, r) = n
                       /\ \A r \in rs : CountRank(five, r) <= n
    IN  IF straight /\ flush /\ rs = 10..14 THEN HAND_RANKS.RoyalFlush
        ELSE IF straight /\ flush THEN HAND_RANKS.StraightFlush
        ELSE IF most = 4 THEN HAND_RANKS.FourOfAKind
        ELSE IF most = 3 /\ Cardinality(rs) = 2 THEN HAND_RANKS.FullHouse
        ELSE IF flush THEN HAND_RANKS.Flush
        ELSE IF straight THEN HAND_RANKS.Straight
        ELSE IF most = 3 THEN HAND_RANKS.ThreeOfAKind
        ELSE IF most = 2 /\ Cardinality(rs) = 3 THEN HAND_RANKS.TwoPair
        ELSE IF most = 2 THEN HAND_RANKS.Pair
        ELSE HAND_RANKS.HighCard

\* The highest category among all 5-card subsets of the pool.
BruteForceRank(cards) ==
    LET found == { Classify(Pick(cards, idx)) : idx \in IncSeqs(5, 1, Len(cards)) }
    IN  CHOOSE c \in found : \A d \in found : d <= c

\* C1: for every duplicate-free pool of 2 hole cards and 3 to 5 community
\* cards, evaluate_hand returns exactly 5 cards, no card twice, all of them
\* cards of the pool.
C1_FiveCardsOfPool ==
    (Returned /\ ContractPool) =>
        /\ Len(BestHand) = 5
        /\ IsDuplicateFree(BestHand)
        /\ Range(BestHand) \subseteq Range(Pool)

\* C2: for every duplicate-free pool of 5 to 7 cards, the rank returned by
\* evaluate_hand is the highest category found among all 5-card subsets of
\* the pool.
C2_RankIsBruteForce ==
    (Returned /\ ContractPool) => HandRank = BruteForceRank(Pool)

\* The pool holds 2, 3, 4, 5 and an ace, no suit 5 times or more, and no five
\* consecutive ranks above the wheel.
WheelPool ==
    /\ {2, 3, 4, 5, 14} \subseteq RanksOf(Pool)
    /\ \A s \in Suits : CountSuit(Pool, s) < 5
    /\ \A r \in 2..10 : ~((r..(r + 4)) \subseteq RanksOf(Pool))

\* C9: for every duplicate-free pool of 5 to 7 cards that holds the ranks 2,
\* 3, 4, 5 and 14, no suit 5 times and no higher straight, evaluate_hand
\* returns Straight (never High Card) and 5 cards whose ranks are exactly
\* {2, 3, 4, 5, 14}.
C9_WheelIsStraight ==
    (Returned /\ ContractPool /\ WheelPool) =>
        /\ HandRank = HAND_RANKS.Straight
        /\ Len(BestHand) = 5
        /\ RanksOf(BestHand) = {2, 3, 4, 5, 14}

\* The pool has 7 cards, among them 10, J, Q, K, A of one suit.
RoyalPool ==
    /\ Len(Pool) = 7
    /\ \E s \in Suits : Range(RoyalCards(s)) \subseteq Range(Pool)

\* C10: for every duplicate-free 7-card pool that holds 10, J, Q, K and A of
\* one suit, whatever the two other cards are, evaluate_hand returns Royal
\* Flush, the highest rank, 10.
C10_RoyalFlushRecognized ==
    (Returned /\ ContractPool /\ RoyalPool) =>
        /\ HandRank = HAND_RANKS.RoyalFlush
        /\ HandRank = 10
        /\ \A name \in DOMAIN HAND_RANKS : HAND_RANKS[name] <= HandRank

\* C10's case: a royal flush in spades was evaluated beside two other cards
\* of straight ranks and lower suits, which the evaluator puts in the hand
\* it returns.
C10_Witness ==
    /\ Returned /\ ContractPool /\ RoyalPool
    /\ Range(RoyalCards("S")) \subseteq Range(Pool)
    /\ <<10, "C">> \in Range(Pool)
    /\ <<14, "H">> \in Range(Pool)
    /\ HandRank = HAND_RANKS.RoyalFlush

----------------------------------------------------------------------------
(* Properties of the mcts loop *)

\* mcts is between two iterations of its loop, or has left the loop.
BetweenIterations == pc \in {"loop", "report", "decide", "done", "ZeroDivisionError"}

\* mcts has left its loop.
LoopLeft == pc \in {"report", "decide", "done", "ZeroDivisionError"}

\* node and its ancestors, up to the root.
RECURSIVE PathToRoot(_, _)
PathToRoot(tree, node) ==
    IF node = 0 THEN {} ELSE {node} \cup PathToRoot(tree, tree[node].parent)

\* C3: after any number of completed iterations of the mcts loop, the root's
\* visit count equals total_simulations and 0 <= root.wins <= root.visits.
C3_RootVisits ==
    BetweenIterations =>
        /\ nodes[root].simulations = total_simulations
        /\ 0 <= nodes[root].wins
        /\ nodes[root].wins <= nodes[root].simulations

\* C3's case: three iterations are complete, below the root as well, and
\* the root has counted some of them as wins and some not.
C3_Witness ==
    /\ pc = "loop"
    /\ total_simulations = 3
    /\ Len(nodes) = 3
    /\ nodes[root].simulations = 3
    /\ nodes[root].wins = 1

\* C4: backpropagation of a rollout outcome (Win = 1, Loss = 0, Tie = 0.5)
\* adds exactly 1 to visits and exactly the outcome to wins, at the
\* rolled-out node and at every ancestor up to the root; a Tie adds 0.5 to
\* wins at each of them.  (result is twice the outcome.)
C4_BackpropagationAddsOutcome ==
    [][ (pc = "backpropagation" /\ pc' = "count") =>
          \A n \in PathToRoot(nodes, selected_node) :
             /\ nodes'[n].simulations = nodes[n].simulations + 1
             /\ 2 * (nodes'[n].wins - nodes[n].wins) = result ]_vars

\* C5: after any number of completed iterations, root.wins equals
\* wins + 0.5 * ties of the loop's counters, so that root.wins / root.visits
\* is the reported win probability.
C5_RootWinsCountTies ==
    BetweenIterations =>
        /\ 2 * nodes[root].wins = 2 * wins + ties
        /\ nodes[root].simulations = total_simulations

\* C6: for every run of mcts that completes at least one simulation, the
\* decision returned is "stay" exactly when (wins + 0.5 * ties) /
\* total_simulations >= 0.5, that is 2 * wins + ties >= total_simulations,
\* and "fold" otherwise; 0.5 exactly yields "stay".
C6_DecisionRule ==
    (pc = "done" /\ total_simulations >= 1) =>
        /\ decision \in {"stay", "fold"}
        /\ decision = "stay" <=> 2 * wins + ties >= total_simulations
        /\ 2 * wins + ties = total_simulations => decision = "stay"

\* C6's case: mcts has returned with a win probability of 0.5 exactly, made
\* of a win, a loss and two ties.
C6_Witness ==
    /\ pc = "done"
    /\ wins = 1 /\ ties = 2 /\ losses = 1
    /\ total_simulations = 4
    /\ decision = "stay"

\* C7: when the time budget elapses before any simulation completes
\* (total_simulations = 0), mcts returns normally with decision "fold" and
\* win probability 0; it raises no error.
C7_ZeroSimulationsFold ==
    (LoopLeft /\ total_simulations = 0) =>
        /\ pc # "ZeroDivisionError"
        /\ pc = "done" => (decision = "fold" /\ win_probability[1] = 0)

\* C8: the deadline is tested only between iterations: every rollout that is
\* started is followed by exactly one backpropagation and one update of the
\* win/tie/loss counters before the loop can be left, so when the loop is
\* left wins + ties + losses = total_simulations = root.visits.
C8_EveryRolloutAccounted ==
    /\ LoopLeft =>
          /\ started = backpropagated
          /\ started = total_simulations
          /\ wins + ties + losses = total_simulations
          /\ total_simulations = nodes[root].simulations
    /\ pc = "backpropagation" =>
          (started = backpropagated + 1 /\ backpropagated = total_simulations)
    /\ pc = "count" =>
          (started = backpropagated /\ backpropagated = total_simulations + 1)
    /\ pc \in {"loop", "selection", "expansion", "rollout"} =>
          (started = backpropagated /\ backpropagated = total_simulations)

\* C8's case: the deadline has passed while the third iteration is under
\* way; its rollout has been backpropagated and its counters are about to be
\* updated, the loop test not being made before that.
C8_Witness ==
    /\ pc = "count"
    /\ clock - start_time >= time_limit
    /\ started = 3
    /\ backpropagated = 3
    /\ total_simulations = 2


----------------------------------------------------------------------------
(* Properties of rollout *)

\* The call of rollout has returned (it did not raise IndexError).
RolloutReturned == rolled # <<>> /\ ~rolled[1].raised

\* What the call dealt, and the two hands it evaluated.
OpponentCards == rolled[1].opponent_cards
FullCommunity == rolled[1].full_community
AdditionalCards ==
    SubSeq(FullCommunity, Len(nodes[1].community_cards) + 1, Len(FullCommunity))
MyHand == evaluate_hand(nodes[1].hole_cards, FullCommunity)
OppHand == evaluate_hand(OpponentCards, FullCommunity)

\* a comes before b in the descending lexicographic order of rank lists.
LexGreater(a, b) ==
    \E i \in 1..Len(a) :
       /\ i <= Len(b)
       /\ a[i] > b[i]
       /\ \A j \in 1..(i - 1) : a[j] = b[j]

\* C11: rollout returns Tie exactly when the two evaluated hands have the
\* same category and the same ranks, Win exactly when the player's hand has
\* the higher category or, in the same category, the lexicographically
\* greater descending ranks, and Loss otherwise.
C11_RolloutComparison ==
    RolloutReturned =>
       /\ rolled[1].result \in {Win, Tie, Loss}
       /\ rolled[1].result = Tie <=>
             /\ MyHand.rank = OppHand.rank
             /\ ValuesDesc(MyHand.best_hand) = ValuesDesc(OppHand.best_hand)
       /\ rolled[1].result = Win <=>
             \/ MyHand.rank > OppHand.rank
             \/ /\ MyHand.rank = OppHand.rank
                /\ LexGreater(ValuesDesc(MyHand.best_hand),
                              ValuesDesc(OppHand.best_hand))


WheelValues == <<14, 5, 4, 3, 2>>

\* hand is the wheel straight; hand is a straight with a higher top card.
IsWheel(hand) ==
    hand.rank = HAND_RANKS.Straight /\ ValuesDesc(hand.best_hand) = WheelValues
IsHigherStraight(hand) ==
    /\ hand.rank = HAND_RANKS.Straight
    /\ Len(hand.best_hand) = 5
    /\ ValuesDesc(hand.best_hand) # WheelValues

\* C20: the ace counts low in the wheel: in a rollout where one hand is the
\* wheel straight and the other a straight with a higher top card, the
\* wheel loses.
C20_WheelLosesToHigherStraight ==
    RolloutReturned =>
       /\ (IsWheel(MyHand) /\ IsHigherStraight(OppHand)) => rolled[1].result = Loss
       /\ (IsHigherStraight(MyHand) /\ IsWheel(OppHand)) => rolled[1].result = Win


----------------------------------------------------------------------------
(* Properties of draw_cards *)

\* C14: draw_cards(deck, n) with n <= len(deck) returns the first n cards of
\* deck in order and the rest of deck in order; with n > len(deck) it fails
\* with an error instead of returning fewer cards; in both cases the deck
\* passed in is not modified.
C14_DrawCardsContract ==
    [][(drawn.out = <<>> /\ drawn'.out # <<>>) =>
          /\ drawn'.deck = drawn.deck
          /\ drawn'.num_cards = drawn.num_cards
          /\ drawn.num_cards <= Len(drawn.deck) =>
                /\ ~drawn'.out[1].raised
                /\ drawn'.out[1].drawn_cards =
                      [ i \in 1..drawn.num_cards |-> drawn.deck[i] ]
                /\ drawn'.out[1].remaining_deck =
                      [ i \in 1..(Len(drawn.deck) - drawn.num_cards) |->
                          drawn.deck[drawn.num_cards + i] ]
          /\ drawn.num_cards > Len(drawn.deck) => drawn'.out[1].raised]_vars

\* C14's case: three cards were asked of a deck of two; the call has raised
\* and the deck still holds its two cards.
C14_Witness ==
    /\ drawn.out # <<>>
    /\ drawn.out[1].raised
    /\ drawn.num_cards = 3
    /\ Len(drawn.deck) = 2


----------------------------------------------------------------------------
(* Properties of main *)

\* C13: once the hole cards are dealt, and after each phase's community
\* deal, the remaining deck, the hole cards and the community cards of main
\* are pairwise disjoint, hold no card twice, and together are exactly the 52
\* cards of DECK.
C13_CardsPartition ==
    game.pc \notin {"idle", "start"} =>
       /\ Len(game.hole_cards) = 2
       /\ IsDuplicateFree(game.deck \o game.hole_cards \o game.community_cards)
       /\ Range(game.deck \o game.hole_cards \o game.community_cards) = Range(DECK)
       /\ Len(game.deck) + Len(game.hole_cards) + Len(game.community_cards) = 52

\* C13's case: the game was played to the end of the river: 2 hole cards, 5
\* community cards and 45 cards in the deck.
C13_Witness ==
    /\ game.pc = "complete"
    /\ Len(game.community_cards) = 5
    /\ Len(game.deck) = 45

\* The number of community cards of each phase.
PhaseCommunity == <<0, 3, 4, 5>>

\* C15: the calls of mcts by main are made in the order pre-flop, flop,
\* turn, river, once each, with 0, 3, 4 and 5 community cards and with a
\* deck that is the 52 cards minus the hole cards and the community cards
\* revealed so far; the community cards of a phase extend those of the
\* phase before; a call is made only if every earlier decision was "stay",
\* and after a "fold" nothing more is dealt or decided.
C15_OneCallPerPhase ==
    /\ Len(game.calls) <= Len(phases)
    /\ Len(game.decisions) <= Len(game.calls)
    /\ \A k \in 1..Len(game.calls) :
          /\ game.calls[k].phase = phases[k]
          /\ Len(game.calls[k].community_cards) = PhaseCommunity[k]
          /\ game.calls[k].hole_cards = game.hole_cards
          /\ IsDuplicateFree(game.calls[k].remaining_deck)
          /\ Range(game.calls[k].remaining_deck) =
                Range(DECK) \ (Range(game.calls[k].hole_cards)
                                 \cup Range(game.calls[k].community_cards))
          /\ k > 1 =>
                /\ game.decisions[k - 1] = "stay"
                /\ SubSeq(game.calls[k].community_cards, 1, PhaseCommunity[k - 1])
                      = game.calls[k - 1].community_cards
    /\ game.pc \in {"deal", "mcts"} =>
          /\ Len(game.calls) = game.phase - 1
          /\ Len(game.decisions) = game.phase - 1
    /\ game.pc = "folded" =>
          /\ Len(game.decisions) = Len(game.calls)
          /\ game.decisions[Len(game.decisions)] = "fold"
          /\ game.community_cards = game.calls[Len(game.calls)].community_cards
    /\ game.pc = "complete" =>
          /\ Len(game.calls) = Len(phases)
          /\ game.decisions = <<"stay", "stay", "stay", "stay">>

\* C15's case: main stayed at the pre-flop and at the flop and folded at the
\* turn, on 4 community cards.
C15_Witness ==
    /\ game.pc = "folded"
    /\ game.decisions = <<"stay", "stay", "fold">>
    /\ Len(game.calls) = 3
    /\ Len(game.community_cards) = 4


----------------------------------------------------------------------------
(* Properties of selection *)

\* The nodes selection passed through before it stopped at selected_node.
PassedThrough == PathToRoot(nodes, selected_node) \ {selected_node}

\* node has a child that was never simulated.
HasUnvisitedChild(node) ==
    \E i \in 1..Len(nodes[node].children) :
       nodes[nodes[node].children[i]].simulations = 0

\* C16: selection from the root returns a node that is unvisited or
\* childless; every node it passed through has at least one child and one
\* visit; where a node it passed through has an unvisited child, the child
\* it went to is unvisited; and no node is changed.
C16_SelectionContract ==
    [][(selected_node = 0 /\ selected_node' # 0) =>
          /\ nodes' = nodes
          /\ selected_node' \in 1..Len(nodes)
          /\ root \in PathToRoot(nodes, selected_node')
          /\ \/ nodes[selected_node'].simulations = 0
             \/ nodes[selected_node'].children = <<>>
          /\ \A n \in PathToRoot(nodes, selected_node') \ {selected_node'} :
                /\ Len(nodes[n].children) > 0
                /\ nodes[n].simulations > 0
          /\ \A n \in PathToRoot(nodes, selected_node') \ {root} :
                HasUnvisitedChild(nodes[n].parent) => nodes[n].simulations = 0]_vars

\* C16's case: the root has a visited child and, added after it, an
\* unvisited one, and selection has returned the unvisited child.
C16_Witness ==
    /\ selected_node # 0
    /\ PassedThrough = {root}
    /\ Len(nodes[root].children) >= 2
    /\ nodes[nodes[root].children[1]].simulations > 0
    /\ nodes[selected_node].simulations = 0
    /\ selected_node # nodes[root].children[1]


----------------------------------------------------------------------------
(* Properties of the mcts loop *)

\* C17: in an iteration of mcts, if the selected node has simulations >= 1
\* exactly one node is added: a child of the selected node, last of its
\* children, with simulations = 0, wins = 0, no children and the hole cards,
\* community cards and remaining deck of the selected node, and the rollout
\* is made on it; if the selected node has simulations = 0 no node is added.
\* No counter and no card of an existing node changes, and no other step of
\* mcts adds a node.
C17_ExpansionAddsOneChild ==
    [][/\ Len(nodes') # Len(nodes) => (pc = "expansion" /\ pc' = "rollout")
       /\ (pc = "expansion" /\ pc' = "rollout") =>
             IF nodes[selected_node].simulations >= 1
             THEN /\ Len(nodes') = Len(nodes) + 1
                  /\ selected_node' = Len(nodes) + 1
                  /\ nodes'[Len(nodes) + 1] =
                        [ hole_cards |-> nodes[selected_node].hole_cards,
                          community_cards |-> nodes[selected_node].community_cards,
                          remaining_deck |-> nodes[selected_node].remaining_deck,
                          parent |-> selected_node, children |-> <<>>,
                          wins |-> 0, simulations |-> 0 ]
                  /\ nodes'[selected_node] =
                        [ nodes[selected_node] EXCEPT
                            !.children = Append(@, Len(nodes) + 1) ]
                  /\ \A i \in 1..Len(nodes) :
                        i # selected_node => nodes'[i] = nodes[i]
             ELSE /\ nodes' = nodes
                  /\ selected_node' = selected_node]_vars

\* C17's case: the third iteration has selected the child of the root,
\* which had been simulated once, and expansion has added a child to it.
C17_Witness ==
    /\ pc = "rollout"
    /\ Len(nodes) = 3
    /\ selected_node = 3
    /\ nodes[3].parent = 2
    /\ nodes[2].children = <<3>>
    /\ nodes[2].simulations = 1
    /\ nodes[3].simulations = 0


\* The time mcts has run for, as line 395 computes it.
Elapsed == clock - start_time

\* C18: the loop of mcts starts an iteration only while the elapsed time is
\* below time_limit, whatever the number of iterations made; it is left only
\* when the elapsed time has reached time_limit; and once it is left mcts
\* returns a decision: it does not end in an error, and when it has
\* returned the decision is "stay" or "fold".
C18_LoopRunsToDecision ==
    [][/\ (pc = "loop" /\ pc' = "selection") => Elapsed < time_limit
       /\ (pc = "loop" /\ pc' # "loop") =>
             (pc' = "selection" <=> Elapsed < time_limit)
       /\ (pc = "loop" /\ pc' = "report") => Elapsed >= time_limit
       /\ pc' \notin {"ZeroDivisionError", "IndexError"}
       /\ pc' = "done" => decision' \in {"stay", "fold"}]_vars


----------------------------------------------------------------------------
(* Properties of evaluate_hand, category by category *)

\* cards hold five consecutive ranks or the wheel; cards hold a suit five
\* times or more.
HasStraight(cards) ==
    \/ {2, 3, 4, 5, 14} \subseteq RanksOf(cards)
    \/ \E r \in 2..10 : (r..(r + 4)) \subseteq RanksOf(cards)
HasFlush(cards) == \E s \in Suits : CountSuit(cards, s) >= 5

\* The cards of cards that fewer than n cards of cards outrank: its n
\* highest cards, when no rank is cut in two.
Highest(cards, n) ==
    { c \in Range(cards) :
        Cardinality({ d \in Range(cards) : d[1] > c[1] }) < n }

\* The cards of the pool of suit s, of rank r, and of a rank outside rs.
OfSuit(s) == SelectSeq(Pool, LAMBDA c : c[2] = s)
OfRank(r) == SelectSeq(Pool, LAMBDA c : c[1] = r)
NotOfRanks(rs) == SelectSeq(Pool, LAMBDA c : c[1] \notin rs)

\* The pool has a suit five times or more, and no straight flush, four of
\* a kind or full house: its best category is Flush.
FlushPool ==
    /\ HasFlush(Pool)
    /\ BruteForceRank(Pool) = HAND_RANKS.Flush

\* C21: for every duplicate-free pool of 5 to 7 cards in which a suit has 5
\* cards or more and which holds no straight flush, four of a kind or full
\* house, evaluate_hand returns Flush and the 5 highest cards of that suit,
\* whether the pool holds a straight or not.
C21_FlushRecognized ==
    (Returned /\ ContractPool /\ FlushPool) =>
        /\ HandRank = HAND_RANKS.Flush
        /\ Len(BestHand) = 5
        /\ \E s \in Suits :
              /\ CountSuit(Pool, s) >= 5
              /\ Range(BestHand) = Highest(OfSuit(s), 5)


\* The ranks the pool holds exactly n times.
RanksHeld(n) == { r \in RanksOf(Pool) : CountRank(Pool, r) = n }

\* The two highest ranks of a set of ranks.
TopTwo(rs) == { r \in rs : Cardinality({ q \in rs : q > r }) < 2 }

\* The pool has two ranks or more held exactly twice, no rank held three
\* times or more, no straight and no flush.
TwoPairPool ==
    /\ Cardinality(RanksHeld(2)) >= 2
    /\ \A r \in RanksOf(Pool) : CountRank(Pool, r) < 3
    /\ ~HasStraight(Pool)
    /\ ~HasFlush(Pool)

\* C22: for every duplicate-free pool of 5 to 7 cards with two or more
\* ranks held exactly twice, no rank held three times or more, no straight
\* and no flush, evaluate_hand returns Two Pair with the two highest pairs
\* and the highest card of the rest.
C22_TwoPairRecognized ==
    (Returned /\ ContractPool /\ TwoPairPool) =>
        /\ HandRank = HAND_RANKS.TwoPair
        /\ Len(BestHand) = 5
        /\ IsDuplicateFree(BestHand)
        /\ \A r \in TopTwo(RanksHeld(2)) : Range(OfRank(r)) \subseteq Range(BestHand)
        /\ \A c \in Range(BestHand) :
              \/ c[1] \in TopTwo(RanksHeld(2))
              \/ c \in Highest(NotOfRanks(TopTwo(RanksHeld(2))), 1)

\* The pool has one rank held three times, every other rank once, no
\* straight and no flush.
ThreeOfAKindPool ==
    /\ Cardinality(RanksHeld(3)) = 1
    /\ \A r \in RanksOf(Pool) : CountRank(Pool, r) \in {1, 3}
    /\ ~HasStraight(Pool)
    /\ ~HasFlush(Pool)

\* C23: for every duplicate-free pool of 5 to 7 cards with one rank held
\* three times, every other rank once, no straight and no flush,
\* evaluate_hand returns Three of a Kind with the three cards and the 2
\* highest cards of the rest; and it returns Full House only for a pool that
\* holds three cards of a rank and two of another.
C23_ThreeOfAKindRecognized ==
    /\ (Returned /\ ContractPool /\ ThreeOfAKindPool) =>
          /\ HandRank = HAND_RANKS.ThreeOfAKind
          /\ Len(BestHand) = 5
          /\ Range(BestHand) =
                UNION { Range(OfRank(r)) : r \in RanksHeld(3) }
                   \cup Highest(NotOfRanks(RanksHeld(3)), 2)
    /\ (Returned /\ ContractPool /\ HandRank = HAND_RANKS.FullHouse) =>
          \E r \in RanksOf(Pool) : \E q \in RanksOf(Pool) \ {r} :
             CountRank(Pool, r) >= 3 /\ CountRank(Pool, q) >= 2


----------------------------------------------------------------------------
(* The shape of the tree built by mcts *)

\* The depth of node in tree, 0 for the root.
Depth(tree, node) == Cardinality(PathToRoot(tree, node)) - 1

\* C24: the tree built by mcts is a single chain: after k >= 1 completed
\* iterations it has exactly k nodes, every node has at most one child and
\* at least one simulation, the node at depth d has k - d simulations, and
\* so each node has one simulation more than its child; this is also the
\* tree selection descends, which therefore meets no unvisited child.
C24_TreeIsChain ==
    ((BetweenIterations \/ pc = "selection") /\ total_simulations >= 1) =>
        /\ Len(nodes) = total_simulations
        /\ \A n \in 1..Len(nodes) :
              /\ Len(nodes[n].children) <= 1
              /\ nodes[n].simulations >= 1
              /\ nodes[n].simulations = total_simulations - Depth(nodes, n)
              /\ \A i \in 1..Len(nodes[n].children) :
                    /\ nodes[nodes[n].children[i]].parent = n
                    /\ nodes[n].simulations =
                          1 + nodes[nodes[n].children[i]].simulations
        /\ \A d \in 0..(total_simulations - 1) :
              Cardinality({ n \in 1..Len(nodes) : Depth(nodes, n) = d }) = 1

\* C24's case: three iterations are complete: the tree is the root, its
\* child and its grandchild, with 3, 2 and 1 simulations.
C24_Witness ==
    /\ pc = "loop"
    /\ total_simulations = 3
    /\ Len(nodes) = 3
    /\ nodes[2].parent = root
    /\ nodes[3].parent = 2
    /\ nodes[root].simulations = 3
    /\ nodes[2].simulations = 2
    /\ nodes[3].simulations = 1

============================================================================
